---- MODULE Spec2Model ----
(***************************************************************************)
(* EVE_PingBot (src/bot_main.py): the ping lifecycle.                      *)
(*                                                                         *)
(* post_ping publishes a ping to a Discord channel, edits it to add a      *)
(* self-link, mirrors it to Telegram and records the identifiers in        *)
(* last_ping.json; reping reposts the last ping of a channel; ping_status  *)
(* edits the last ping in place on both platforms.                         *)
(*                                                                         *)
(* Every command handler is an asyncio coroutine: it runs without          *)
(* interruption between two awaits and may interleave with other           *)
(* invocations at each await.  One action of the model is the arrival of   *)
(* the awaited result together with the code that runs up to the next      *)
(* await.  The outcome of a network call is chosen nondeterministically.   *)
(*                                                                         *)
(* Texts are sequences of tokens: <<"B", x>> a chunk of rendered content,  *)
(* <<"NL">> one newline, <<"LINK", u>> the markup                          *)
(* "[Ссылка на пинг](u)", <<"ST", s>> the markup "*СТАТУС:* s".            *)
(***************************************************************************)
EXTENDS Integers, Sequences, FiniteSets, TLC

VARIABLES store, dmsgs, tgmsgs, tasks, used, parsed

vars == <<store, dmsgs, tgmsgs, tasks, used, parsed>>

(***************************************************************************)
(* Bounds of the model.                                                    *)
(***************************************************************************)
MaxMsgs == 2

MaxStatus == 3

MaxOverlaps == 1

Tasks == {1, 2}

Channels == {1, 2}

Statuses == {"s1", "s2"}

(***************************************************************************)
(* Optional values: Python's None and a present value.                     *)
(***************************************************************************)
None == <<>>

Some(x) == <<x>>

(***************************************************************************)
(* Telegram routing.  The environment of the process is fixed at start:    *)
(* STRATOP has its own chat and topic, the other categories fall back to   *)
(* the default chat, which has no topic.                                   *)
(***************************************************************************)
Categories == {"STRATOP", "BREAKING_NEWS"}

TG_CHAT_ID_DEFAULT == "chatD"

TG_TOPIC_ID_DEFAULT == None

GetenvChat(kind, category) ==
    IF kind = "TELEGRAM_CHAT_ID" /\ category = "STRATOP" THEN "chatS" ELSE ""

GetenvTopic(kind, category) ==
    IF kind = "TELEGRAM_TOPIC_ID" /\ category = "STRATOP" THEN Some(7) ELSE None

pick_tg_chat_id(category) ==
    LET v == GetenvChat("TELEGRAM_CHAT_ID", category)
        fallback == GetenvChat("TELEGRAM_CHAT_ID", "PINGS")
    IN  IF v # "" THEN v
        ELSE IF fallback # "" THEN fallback
        ELSE TG_CHAT_ID_DEFAULT

pick_tg_topic_id(category) ==
    LET v == GetenvTopic("TELEGRAM_TOPIC_ID", category)
        fallback == GetenvTopic("TELEGRAM_TOPIC_ID", "PINGS")
    IN  IF v # None THEN v
        ELSE IF fallback # None THEN fallback
        ELSE TG_TOPIC_ID_DEFAULT

Chats == {pick_tg_chat_id(c) : c \in Categories}

(***************************************************************************)
(* Text helpers.                                                           *)
(***************************************************************************)
NL == <<"NL">>

\* escape_md_v2 puts a backslash before every reserved character: the
\* result is the escaped form of x, which never reads as markup.
escape_md_v2(x) == <<"esc", x>>

LinkTok(url) == <<"LINK", escape_md_v2(url)>>

StatusTok(status) == <<"ST", escape_md_v2(status)>>

IsLink(tok) == tok[1] = "LINK"

IsStatus(tok) == tok[1] = "ST"

\* msg.jump_url: the permanent URL of message m of channel ch.
JumpUrl(ch, m) == <<"url", ch, m>>

\* The tokens of s, from index i on, whose index is in keep.
RECURSIVE FilterIdx(_, _, _)
FilterIdx(s, i, keep) ==
    IF i > Len(s) THEN <<>>
    ELSE (IF i \in keep THEN <<s[i]>> ELSE <<>>) \o FilterIdx(s, i + 1, keep)

\* str.rstrip(): drop the trailing whitespace.
RECURSIVE RStrip(_)
RStrip(s) ==
    IF s # <<>> /\ s[Len(s)] = NL THEN RStrip(SubSeq(s, 1, Len(s) - 1)) ELSE s

\* re.sub(r"\n\*СТАТУС:\*.*$", "", base_text, flags=re.S): cut the text at
\* the first newline that is directly followed by the status markup.
tg_apply_status(base_text, status) ==
    LET hits == {i \in 1..(Len(base_text) - 1) :
                    base_text[i] = NL /\ IsStatus(base_text[i + 1])}
        first == CHOOSE i \in hits : \A j \in hits : i <= j
        cleaned == IF hits = {} THEN base_text ELSE SubSeq(base_text, 1, first - 1)
    IN  cleaned \o <<NL, NL, StatusTok(status)>>

\* Mutant of tg_replace_link: the fresh link is appended, the old one stays.
tg_replace_link_AppendOnly(base_text, new_url) ==
    RStrip(base_text) \o <<NL, NL, LinkTok(new_url)>>

\* re.sub(r"\n*\[Ссылка на пинг\]\([^\)]*\)\s*", "", base_text): every link
\* markup goes, with the run of newlines before it and the run of
\* whitespace after it; then rstrip, then the fresh link.
tg_replace_link(base_text, new_url) ==
    LET n == Len(base_text)
        Links == {j \in 1..n : IsLink(base_text[j])}
        Between(i, j) == IF i < j THEN (i + 1)..(j - 1) ELSE (j + 1)..(i - 1)
        Gone(i) == \/ IsLink(base_text[i])
                   \/ /\ base_text[i] = NL
                      /\ \E j \in Links : \A k \in Between(i, j) : base_text[k] = NL
        cleaned == RStrip(FilterIdx(base_text, 1, {i \in 1..n : ~Gone(i)}))
    IN  cleaned \o <<NL, NL, LinkTok(new_url)>>

(***************************************************************************)
(* Embeds: a sequence of fields <<name, value>>.                           *)
(***************************************************************************)
LinkField(url) == <<"Link", url>>

\* embed.add_field(name=..., value=...)
add_field(embed, name, value) == Append(embed, <<name, value>>)

embed_without_link_field(src) ==
    FilterIdx(src, 1, {i \in 1..Len(src) : src[i][1] # "Link"})

\* ping_status: replace the first field named "Статус", or add one.
SetStatusField(embed, status) ==
    LET idxs == {i \in 1..Len(embed) : embed[i][1] = "Status"}
        status_idx == CHOOSE i \in idxs : \A j \in idxs : i <= j
    IN  IF idxs = {} THEN add_field(embed, "Status", status)
        ELSE [embed EXCEPT ![status_idx] = <<"Status", status>>]

(***************************************************************************)
(* The arguments of post_ping: a category, an embed and tg_text, a text or *)
(* None.  The command handlers of the file build a text (label and body,   *)
(* escaped) and pass it; None is the publish without Telegram mirror that  *)
(* post_ping provides for with "tg_text: str | None" and "if tg_text is    *)
(* not None".                                                              *)
(***************************************************************************)
Contents ==
    { [category |-> "STRATOP", embed |-> <<<<"Body", "b1">>>>,
       tg_text |-> Some(<<<<"B", escape_md_v2("b1")>>>>)],
      [category |-> "BREAKING_NEWS", embed |-> <<<<"Body", "b2">>>>,
       tg_text |-> None] }

(***************************************************************************)
(* last_ping.json: a JSON object, modelled as the set of its members       *)
(* <<key, record>>.                                                        *)
(***************************************************************************)
\* str(channel_id)
Str(n) == <<"str", n>>

load_last_ping == store

\* dict.get(key): the value of the member with that key, or None.
DictGet(d, key) ==
    IF \E e \in d : e[1] = key
    THEN Some((CHOOSE e \in d : e[1] = key)[2])
    ELSE None

\* Mutant of DictSet: the member is added and the old one stays.
DictSet_KeepOld(d, key, value) == d \cup {<<key, value>>}

\* data[key] = value: the member with that key is replaced.
DictSet(d, key, value) == {e \in d : e[1] # key} \cup {<<key, value>>}

\* Mutant of save_last_ping: the mapping is not read back, the file is
\* written with the one record.
save_last_ping_OnlyKey(channel_id, discord_message_id, tg_chat_id, tg_topic_id, tg_message_id, tg_text) ==
    DictSet({}, Str(channel_id),
            [discord_message_id |-> discord_message_id,
             tg_chat_id |-> tg_chat_id,
             tg_topic_id |-> tg_topic_id,
             tg_message_id |-> tg_message_id,
             tg_text |-> tg_text])

\* Mutant of save_last_ping: the Telegram text is not stored.
save_last_ping_DropsText(channel_id, discord_message_id, tg_chat_id, tg_topic_id, tg_message_id, tg_text) ==
    DictSet(load_last_ping, Str(channel_id),
            [discord_message_id |-> discord_message_id,
             tg_chat_id |-> tg_chat_id,
             tg_topic_id |-> tg_topic_id,
             tg_message_id |-> tg_message_id,
             tg_text |-> None])

save_last_ping(channel_id, discord_message_id, tg_chat_id, tg_topic_id, tg_message_id, tg_text) ==
    DictSet(load_last_ping, Str(channel_id),
            [discord_message_id |-> discord_message_id,
             tg_chat_id |-> tg_chat_id,
             tg_topic_id |-> tg_topic_id,
             tg_message_id |-> tg_message_id,
             tg_text |-> tg_text])

\* Python truthiness of the optional values read back from the JSON file.
TruthyStr(v) == v # None /\ v[1] # ""

TruthyInt(v) == v # None /\ v[1] # 0

TruthyText(v) == v # None /\ v[1] # <<>>

(***************************************************************************)
(* Dates and times.  A string is a sequence of characters; a datetime is a *)
(* record of its fields (tzinfo is UTC throughout); an Optional result is  *)
(* None where Python raises ValueError.                                    *)
(***************************************************************************)
Digit == {"0", "1", "2", "3", "4", "5", "6", "7", "8", "9"}

DigitVal ==
    ("0" :> 0) @@ ("1" :> 1) @@ ("2" :> 2) @@ ("3" :> 3) @@ ("4" :> 4) @@
    ("5" :> 5) @@ ("6" :> 6) @@ ("7" :> 7) @@ ("8" :> 8) @@ ("9" :> 9)

AllDigits(s) == \A i \in 1..Len(s) : s[i] \in Digit

\* int(s) of a string of digits
RECURSIVE IntOf(_)
IntOf(s) ==
    IF s = <<>> THEN 0
    ELSE 10 * IntOf(SubSeq(s, 1, Len(s) - 1)) + DigitVal[s[Len(s)]]

\* str.strip()
RECURSIVE Strip(_)
Strip(s) ==
    IF s # <<>> /\ s[1] = " " THEN Strip(Tail(s))
    ELSE IF s # <<>> /\ s[Len(s)] = " " THEN Strip(SubSeq(s, 1, Len(s) - 1))
    ELSE s

IsLeap(year) ==
    year % 4 = 0 /\ (year % 100 # 0 \/ year % 400 = 0)

DaysInMonth(year, month) ==
    IF month = 2 THEN (IF IsLeap(year) THEN 29 ELSE 28)
    ELSE IF month \in {4, 6, 9, 11} THEN 30 ELSE 31

\* datetime(year, month, day, hour, minute, tzinfo=timezone.utc): the
\* constructor checks every field and raises ValueError.
datetime(year, month, day, hour, minute) ==
    IF /\ year \in 1..9999
       /\ month \in 1..12
       /\ day \in 1..DaysInMonth(year, month)
       /\ hour \in 0..23
       /\ minute \in 0..59
    THEN Some([year |-> year, month |-> month, day |-> day,
               hour |-> hour, minute |-> minute, second |-> 0])
    ELSE None

\* a < b on datetimes
Before(a, b) ==
    LET fa == <<a.year, a.month, a.day, a.hour, a.minute, a.second>>
        fb == <<b.year, b.month, b.day, b.hour, b.minute, b.second>>
    IN  \E i \in 1..6 : /\ fa[i] < fb[i]
                        /\ \A j \in 1..(i - 1) : fa[j] = fb[j]

\* re.fullmatch(r"(\d{2})<sep>(\d{2})", s): the two groups, or None
Match2Sep2(s, sep) ==
    IF /\ Len(s) = 5
       /\ s[3] = sep
       /\ AllDigits(<<s[1], s[2], s[4], s[5]>>)
    THEN Some(<<IntOf(<<s[1], s[2]>>), IntOf(<<s[4], s[5]>>)>>)
    ELSE None

\* datetime.strptime(date_s, "%d.%m.%Y"): a day and a month of one or two
\* digits, a year of four, the whole a date of the calendar.
strptime_dmY(date_s) ==
    LET dots == {i \in 1..Len(date_s) : date_s[i] = "."}
        i1 == CHOOSE i \in dots : \A j \in dots : i <= j
        i2 == CHOOSE i \in dots : \A j \in dots : j <= i
        ds == SubSeq(date_s, 1, i1 - 1)
        ms == SubSeq(date_s, i1 + 1, i2 - 1)
        ys == SubSeq(date_s, i2 + 1, Len(date_s))
    IN  IF /\ Cardinality(dots) = 2
           /\ Len(ds) \in 1..2 /\ Len(ms) \in 1..2 /\ Len(ys) = 4
           /\ AllDigits(ds) /\ AllDigits(ms) /\ AllDigits(ys)
        THEN datetime(IntOf(ys), IntOf(ms), IntOf(ds), 0, 0)
        ELSE None

Return(dt) == [raised |-> "", dt |-> Some(dt)]

Raise(message) == [raised |-> message, dt |-> None]

\* Mutant of parse_et_date_time: a date that has passed stays in the
\* current year.
parse_et_date_time_NoRollover(date_s0, time_s0, now) ==
    LET date_s == Strip(date_s0)
        time_s == Strip(time_s0)
        tm == Match2Sep2(time_s, ":")
        d == strptime_dmY(date_s)
        dm == Match2Sep2(date_s, ".")
    IN  IF tm = None THEN Raise("Bad time format")
        ELSE LET hour == tm[1][1]
                 minute == tm[1][2]
                 full == IF d = None THEN None
                         ELSE datetime(d[1].year, d[1].month, d[1].day,
                                       hour, minute)
             IN  IF full # None THEN Return(full[1])
                 ELSE IF dm = None THEN Raise("Bad date format")
                 ELSE LET dt == datetime(now.year, dm[1][2], dm[1][1],
                                         hour, minute)
                      IN  IF dt = None THEN Raise("Invalid date/time values")
                          ELSE Return(dt[1])

\* now is the reading of datetime.now(timezone.utc).
parse_et_date_time(date_s0, time_s0, now) ==
    LET date_s == Strip(date_s0)
        time_s == Strip(time_s0)
        tm == Match2Sep2(time_s, ":")
        d == strptime_dmY(date_s)
        dm == Match2Sep2(date_s, ".")
    IN  IF tm = None THEN Raise("Bad time format")
        ELSE LET hour == tm[1][1]
                 minute == tm[1][2]
                 full == IF d = None THEN None
                         ELSE datetime(d[1].year, d[1].month, d[1].day,
                                       hour, minute)
             IN  IF full # None THEN Return(full[1])
                 ELSE IF dm = None THEN Raise("Bad date format")
                 ELSE LET day == dm[1][1]
                          month == dm[1][2]
                          dt == datetime(now.year, month, day, hour, minute)
                          next == datetime(now.year + 1, month, day,
                                           hour, minute)
                      IN  IF dt = None THEN Raise("Invalid date/time values")
                          ELSE IF Before(dt[1], now)
                          THEN (IF next = None
                                THEN Raise("Invalid date/time values")
                                ELSE Return(next[1]))
                          ELSE Return(dt[1])

(***************************************************************************)
(* State.                                                                  *)
(*   store     the members of last_ping.json                               *)
(*   dmsgs     the Discord messages the bot sent, by message id: channel   *)
(*             and embed; and, for the properties, the command that sent   *)
(*             it (by), whether the ping it carries was published with a   *)
(*             Telegram mirror (mirror) and whether a record naming it was *)
(*             saved (saved)                                               *)
(*   tgmsgs    per Telegram chat, the messages sent, by message id         *)
(*   tasks     the command invocations: the position of the coroutine      *)
(*             (pc) and its local variables.  calls is the set of platform *)
(*             and store calls the invocation has issued.  At pc "done"    *)
(*             the handler has returned or raised: result says how, tgfail *)
(*             that Telegram answered its last call with a non-ok          *)
(*             response, stale that the record it saved was computed from  *)
(*             a record that was no longer the stored one.                 *)
(*   used      how many invocations started while another one was running  *)
(*             (overlaps), and how many ping_status invocations went on    *)
(*             to fetch the message (statuses)                             *)
(*   parsed    a call of parse_et_date_time: its arguments, the clock      *)
(*             reading and, once it has returned or raised, the outcome    *)
(***************************************************************************)
\* No call of parse_et_date_time is looked at.
NoCall == [date_s |-> <<>>, time_s |-> <<>>, now |-> None, out |-> None]

Idle ==
    [pc |-> "idle", op |-> "none", ch |-> 0, category |-> "",
     status |-> "", data |-> None, msg |-> 0, embed |-> <<>>,
     tg_text |-> None, calls |-> {}, result |-> "none", tgfail |-> FALSE,
     stale |-> FALSE]

Init ==
    /\ store = {}
    /\ dmsgs = <<>>
    /\ tgmsgs = [c \in Chats |-> <<>>]
    /\ tasks = [t \in Tasks |-> Idle]
    /\ used = [overlaps |-> 0, statuses |-> 0]
    /\ parsed = NoCall

Running == {t \in Tasks : tasks[t].pc \notin {"idle", "done"}}

\* A handler returns in the same uninterrupted run as its last statement:
\* nothing else runs while an invocation is at "done".
Quiet == \A t \in Tasks : tasks[t].pc # "done"

\* A command can be invoked when a slot is free; the lowest free slot is
\* taken (the slots are interchangeable).
CanInvoke(t) ==
    /\ Quiet
    /\ tasks[t].pc = "idle"
    /\ \A u \in Tasks : u < t => tasks[u].pc # "idle"
    /\ Running # {} => used.overlaps < MaxOverlaps

Overlap == IF Running # {} THEN 1 ELSE 0

\* The number of invocations that are about to send a Discord message.
Sending ==
    Cardinality({t \in Tasks : \/ tasks[t].pc = "send"
                               \/ tasks[t].pc = "fetch" /\ tasks[t].op = "reping"})

\* The invocation of slot t ends.
Finish(t, locals, result, calls, tgfail, stale) ==
    tasks' = [tasks EXCEPT ![t] =
                 [locals EXCEPT !.pc = "done", !.result = result,
                                !.calls = calls, !.tgfail = tgfail,
                                !.stale = stale]]

\* The record of the channel that the invocation read differs from the one
\* in the store now.
IsStale(t) == DictGet(load_last_ping, Str(tasks[t].ch)) # tasks[t].data

MarkSaved(m) == [dmsgs EXCEPT ![m].saved = TRUE]

\* The slot of a finished invocation is free again.
Reap(t) ==
    /\ tasks[t].pc = "done"
    /\ tasks' = [tasks EXCEPT ![t] = Idle]
    /\ UNCHANGED <<store, dmsgs, tgmsgs, used>>
    /\ UNCHANGED parsed

(***************************************************************************)
(* post_ping (called by stratop, stratop_preping, preping, news, corp).    *)
(***************************************************************************)
\* The handler defers, builds the content and calls post_ping, which
\* sends the Discord message (the command is used in a channel).
InvokePostPing(t, ch, c) ==
    /\ CanInvoke(t)
    /\ Len(dmsgs) + Sending < MaxMsgs
    /\ tasks' = [tasks EXCEPT ![t] =
           [Idle EXCEPT !.pc = "send", !.op = "post", !.ch = ch,
                        !.category = c.category, !.embed = c.embed,
                        !.tg_text = c.tg_text, !.calls = {"d_send"}]]
    /\ used' = [used EXCEPT !.overlaps = @ + Overlap]
    /\ UNCHANGED <<store, dmsgs, tgmsgs>>
    /\ UNCHANGED parsed

\* interaction.channel.send(...) returns msg; the link field is added to
\* the embed and msg.edit is issued.  A failed send raises.
PostPingSent(t) ==
    /\ Quiet
    /\ tasks[t].pc = "send" /\ tasks[t].op = "post"
    /\ \E ok \in BOOLEAN :
        IF ok
        THEN LET m == Len(dmsgs) + 1
                 jump_url == JumpUrl(tasks[t].ch, m)
             IN  /\ dmsgs' = Append(dmsgs,
                        [ch |-> tasks[t].ch, embed |-> tasks[t].embed,
                         by |-> "post", mirror |-> tasks[t].tg_text # None,
                         saved |-> FALSE])
                 /\ tasks' = [tasks EXCEPT ![t].pc = "edit", ![t].msg = m,
                        ![t].embed = add_field(@, "Link", jump_url),
                        ![t].calls = @ \cup {"d_edit"}]
        ELSE /\ Finish(t, tasks[t], "failed", tasks[t].calls, FALSE, FALSE)
             /\ UNCHANGED dmsgs
    /\ UNCHANGED <<store, tgmsgs, used>>
    /\ UNCHANGED parsed

\* Mutant of PostPingEdited: the record is saved as soon as the Discord
\* message is edited, before the Telegram send.
PostPingEdited_SaveFirst(t) ==
    /\ Quiet
    /\ tasks[t].pc = "edit" /\ tasks[t].op = "post"
    /\ \E ok \in BOOLEAN :
        IF ~ok
        THEN /\ Finish(t, tasks[t], "failed", tasks[t].calls, FALSE, FALSE)
             /\ UNCHANGED <<store, dmsgs>>
        ELSE LET m == tasks[t].msg
                 edited == [dmsgs EXCEPT ![m].embed = tasks[t].embed]
                 jump_url == JumpUrl(tasks[t].ch, m)
             IN  /\ dmsgs' = [edited EXCEPT ![m].saved = TRUE]
                 /\ store' = save_last_ping(tasks[t].ch, m, None, None,
                                            None, None)
                 /\ IF tasks[t].tg_text # None
                    THEN tasks' = [tasks EXCEPT ![t].pc = "tg",
                             ![t].tg_text =
                                 Some(tasks[t].tg_text[1]
                                      \o <<NL, NL, LinkTok(jump_url)>>),
                             ![t].calls = @ \cup {"save", "tg_send"}]
                    ELSE Finish(t, tasks[t], "ok",
                                tasks[t].calls \cup {"save"}, FALSE, FALSE)
    /\ UNCHANGED <<tgmsgs, used>>
    /\ UNCHANGED parsed

\* msg.edit(embed=embed) returns.  Without a Telegram text the record is
\* saved; with one, the text gets its link and send_to_telegram is called.
PostPingEdited(t) ==
    /\ Quiet
    /\ tasks[t].pc = "edit" /\ tasks[t].op = "post"
    /\ \E ok \in BOOLEAN :
        IF ~ok
        THEN /\ Finish(t, tasks[t], "failed", tasks[t].calls, FALSE, FALSE)
             /\ UNCHANGED <<store, dmsgs>>
        ELSE LET m == tasks[t].msg
                 edited == [dmsgs EXCEPT ![m].embed = tasks[t].embed]
                 jump_url == JumpUrl(tasks[t].ch, m)
             IN  IF tasks[t].tg_text # None
                 THEN /\ dmsgs' = edited
                      /\ tasks' = [tasks EXCEPT ![t].pc = "tg",
                             ![t].tg_text =
                                 Some(tasks[t].tg_text[1]
                                      \o <<NL, NL, LinkTok(jump_url)>>),
                             ![t].calls = @ \cup {"tg_send"}]
                      /\ UNCHANGED store
                 ELSE /\ dmsgs' = [edited EXCEPT ![m].saved = TRUE]
                      /\ store' = save_last_ping(tasks[t].ch, m, None, None,
                                                 None, None)
                      /\ Finish(t, tasks[t], "ok", tasks[t].calls \cup {"save"},
                                FALSE, FALSE)
    /\ UNCHANGED <<tgmsgs, used>>
    /\ UNCHANGED parsed

\* send_to_telegram returns the id of the new message, or raises when the
\* answer is not ok or the request fails; on success the record is saved.
PostPingTgDone(t) ==
    /\ Quiet
    /\ tasks[t].pc = "tg" /\ tasks[t].op = "post"
    /\ \E answer \in {"ok", "notok", "error"} :
        IF answer = "ok"
        THEN LET tg_chat_id == pick_tg_chat_id(tasks[t].category)
                 tg_topic_id == pick_tg_topic_id(tasks[t].category)
                 tg_message_id == Len(tgmsgs[tg_chat_id]) + 1
             IN  /\ tgmsgs' = [tgmsgs EXCEPT ![tg_chat_id] =
                        Append(@, [topic |-> tg_topic_id,
                                   text |-> tasks[t].tg_text[1]])]
                 /\ store' = save_last_ping(tasks[t].ch, tasks[t].msg,
                        Some(tg_chat_id), tg_topic_id, Some(tg_message_id),
                        tasks[t].tg_text)
                 /\ dmsgs' = MarkSaved(tasks[t].msg)
                 /\ Finish(t, tasks[t], "ok", tasks[t].calls \cup {"save"}, FALSE, FALSE)
        ELSE /\ Finish(t, tasks[t], "failed", tasks[t].calls, answer = "notok", FALSE)
             /\ UNCHANGED <<store, dmsgs, tgmsgs>>
    /\ UNCHANGED used
    /\ UNCHANGED parsed

(***************************************************************************)
(* reping.                                                                 *)
(***************************************************************************)
\* The handler defers, reads the record of the channel and resolves the
\* channel; then it fetches the recorded Discord message.
InvokeReping(t, ch) ==
    /\ CanInvoke(t)
    /\ LET data == DictGet(load_last_ping, Str(ch))
           NotFound == Finish(t, [Idle EXCEPT !.op = "reping", !.ch = ch,
                                              !.data = data],
                              "notfound", {"followup"}, FALSE, FALSE)
       IN  IF data = None
           THEN NotFound
           ELSE \E resolved \in BOOLEAN :
                IF ~resolved
                THEN NotFound
                ELSE /\ Len(dmsgs) + Sending < MaxMsgs
                     /\ tasks' = [tasks EXCEPT ![t] =
                            [Idle EXCEPT !.pc = "fetch", !.op = "reping",
                                         !.ch = ch, !.data = data,
                                         !.calls = {"d_fetch"}]]
    /\ used' = [used EXCEPT !.overlaps = @ + Overlap]
    /\ UNCHANGED <<store, dmsgs, tgmsgs>>
    /\ UNCHANGED parsed

\* ch.fetch_message returns or raises; a message without embeds ends the
\* command; else the embed is cloned without its link and sent anew.
RepingFetched(t) ==
    /\ Quiet
    /\ tasks[t].pc = "fetch" /\ tasks[t].op = "reping"
    /\ \E answer \in {"ok", "error", "noembed"} :
        IF answer = "ok"
        THEN LET old_msg == dmsgs[tasks[t].data[1].discord_message_id]
             IN  /\ tasks' = [tasks EXCEPT ![t].pc = "send",
                        ![t].embed = embed_without_link_field(old_msg.embed),
                        ![t].calls = @ \cup {"d_send"}]
        ELSE Finish(t, tasks[t], IF answer = "error" THEN "notfound" ELSE "noembed",
                    tasks[t].calls \cup {"followup"}, FALSE, FALSE)
    /\ UNCHANGED <<store, dmsgs, tgmsgs, used>>
    /\ UNCHANGED parsed

\* interaction.channel.send(...) returns new_msg; the fresh link field is
\* added and new_msg.edit is issued.
RepingSent(t) ==
    /\ Quiet
    /\ tasks[t].pc = "send" /\ tasks[t].op = "reping"
    /\ \E ok \in BOOLEAN :
        IF ok
        THEN LET m == Len(dmsgs) + 1
                 jump_url == JumpUrl(tasks[t].ch, m)
                 old == tasks[t].data[1].discord_message_id
             IN  /\ dmsgs' = Append(dmsgs,
                        [ch |-> tasks[t].ch, embed |-> tasks[t].embed,
                         by |-> "reping", mirror |-> dmsgs[old].mirror,
                         saved |-> FALSE])
                 /\ tasks' = [tasks EXCEPT ![t].pc = "edit", ![t].msg = m,
                        ![t].embed = add_field(@, "Link", jump_url),
                        ![t].calls = @ \cup {"d_edit"}]
        ELSE /\ Finish(t, tasks[t], "failed", tasks[t].calls, FALSE, FALSE)
             /\ UNCHANGED dmsgs
    /\ UNCHANGED <<store, tgmsgs, used>>
    /\ UNCHANGED parsed

\* new_msg.edit returns.  With a recorded Telegram chat and text the text
\* gets the fresh link and is sent as a new message; else the record is
\* saved without Telegram identifiers.
RepingEdited(t) ==
    /\ Quiet
    /\ tasks[t].pc = "edit" /\ tasks[t].op = "reping"
    /\ \E ok \in BOOLEAN :
        IF ~ok
        THEN /\ Finish(t, tasks[t], "failed", tasks[t].calls, FALSE, FALSE)
             /\ UNCHANGED <<store, dmsgs>>
        ELSE LET m == tasks[t].msg
                 data == tasks[t].data[1]
                 edited == [dmsgs EXCEPT ![m].embed = tasks[t].embed]
                 jump_url == JumpUrl(tasks[t].ch, m)
                 tg_chat_id == data.tg_chat_id
                 tg_topic_id == data.tg_topic_id
             IN  IF TruthyStr(tg_chat_id) /\ TruthyText(data.tg_text)
                 THEN /\ dmsgs' = edited
                      /\ tasks' = [tasks EXCEPT ![t].pc = "tg",
                             ![t].tg_text =
                                 Some(tg_replace_link(data.tg_text[1], jump_url)),
                             ![t].calls = @ \cup {"tg_send"}]
                      /\ UNCHANGED store
                 ELSE /\ dmsgs' = [edited EXCEPT ![m].saved = TRUE]
                      /\ store' = save_last_ping(tasks[t].ch, m,
                             IF TruthyStr(tg_chat_id) THEN tg_chat_id ELSE None,
                             IF TruthyStr(tg_chat_id) THEN tg_topic_id ELSE None,
                             None, None)
                      /\ Finish(t, tasks[t], "ok", tasks[t].calls \cup {"save", "followup"},
                                FALSE, IsStale(t))
    /\ UNCHANGED <<tgmsgs, used>>
    /\ UNCHANGED parsed

\* Mutant of RepingTgDone: the record keeps the identifier of the old
\* Discord message.
RepingTgDone_KeepsOldId(t) ==
    /\ Quiet
    /\ tasks[t].pc = "tg" /\ tasks[t].op = "reping"
    /\ \E answer \in {"ok", "notok", "error"} :
        IF answer = "ok"
        THEN LET data == tasks[t].data[1]
                 tg_chat_id == data.tg_chat_id[1]
                 tg_topic_id == data.tg_topic_id
                 tg_message_id == Len(tgmsgs[tg_chat_id]) + 1
             IN  /\ tgmsgs' = [tgmsgs EXCEPT ![tg_chat_id] =
                        Append(@, [topic |-> tg_topic_id,
                                   text |-> tasks[t].tg_text[1]])]
                 /\ store' = save_last_ping(tasks[t].ch, data.discord_message_id,
                        Some(tg_chat_id), tg_topic_id, Some(tg_message_id),
                        tasks[t].tg_text)
                 /\ dmsgs' = MarkSaved(tasks[t].msg)
                 /\ Finish(t, tasks[t], "ok", tasks[t].calls \cup {"save", "followup"},
                           FALSE, IsStale(t))
        ELSE /\ Finish(t, tasks[t], "failed", tasks[t].calls, answer = "notok", FALSE)
             /\ UNCHANGED <<store, dmsgs, tgmsgs>>
    /\ UNCHANGED used
    /\ UNCHANGED parsed

\* send_to_telegram returns the id of the new message or raises; on
\* success the record is saved and the user is told.
RepingTgDone(t) ==
    /\ Quiet
    /\ tasks[t].pc = "tg" /\ tasks[t].op = "reping"
    /\ \E answer \in {"ok", "notok", "error"} :
        IF answer = "ok"
        THEN LET data == tasks[t].data[1]
                 tg_chat_id == data.tg_chat_id[1]
                 tg_topic_id == data.tg_topic_id
                 tg_message_id == Len(tgmsgs[tg_chat_id]) + 1
             IN  /\ tgmsgs' = [tgmsgs EXCEPT ![tg_chat_id] =
                        Append(@, [topic |-> tg_topic_id,
                                   text |-> tasks[t].tg_text[1]])]
                 /\ store' = save_last_ping(tasks[t].ch, tasks[t].msg,
                        Some(tg_chat_id), tg_topic_id, Some(tg_message_id),
                        tasks[t].tg_text)
                 /\ dmsgs' = MarkSaved(tasks[t].msg)
                 /\ Finish(t, tasks[t], "ok", tasks[t].calls \cup {"save", "followup"},
                           FALSE, IsStale(t))
        ELSE /\ Finish(t, tasks[t], "failed", tasks[t].calls, answer = "notok", FALSE)
             /\ UNCHANGED <<store, dmsgs, tgmsgs>>
    /\ UNCHANGED used
    /\ UNCHANGED parsed

(***************************************************************************)
(* ping_status.                                                            *)
(***************************************************************************)
InvokePingStatus(t, ch, status) ==
    /\ CanInvoke(t)
    /\ LET data == DictGet(load_last_ping, Str(ch))
           NotFound == Finish(t, [Idle EXCEPT !.op = "status", !.ch = ch,
                                              !.data = data],
                              "notfound", {"followup"}, FALSE, FALSE)
       IN  IF data = None
           THEN NotFound
           ELSE \E resolved \in BOOLEAN :
                IF ~resolved
                THEN NotFound
                ELSE /\ used.statuses < MaxStatus
                     /\ tasks' = [tasks EXCEPT ![t] =
                            [Idle EXCEPT !.pc = "fetch", !.op = "status",
                                         !.ch = ch, !.data = data,
                                         !.status = status,
                                         !.calls = {"d_fetch"}]]
    /\ used' = [overlaps |-> used.overlaps + Overlap,
                 statuses |-> IF tasks'[t].pc = "fetch" THEN used.statuses + 1
                              ELSE used.statuses]
    /\ UNCHANGED <<store, dmsgs, tgmsgs>>
    /\ UNCHANGED parsed

\* Mutant of StatusFetched: when the message cannot be fetched, the record
\* that names it is dropped from the store.
StatusFetched_DropRecord(t) ==
    /\ Quiet
    /\ tasks[t].pc = "fetch" /\ tasks[t].op = "status"
    /\ \E answer \in {"ok", "error", "noembed"} :
        IF answer = "ok"
        THEN LET msg == dmsgs[tasks[t].data[1].discord_message_id]
             IN  /\ tasks' = [tasks EXCEPT ![t].pc = "edit",
                        ![t].embed = SetStatusField(msg.embed, tasks[t].status),
                        ![t].calls = @ \cup {"d_edit"}]
                 /\ UNCHANGED store
        ELSE /\ Finish(t, tasks[t],
                       IF answer = "error" THEN "notfound" ELSE "noembed",
                       tasks[t].calls \cup {"followup"}, FALSE, FALSE)
             /\ store' = IF answer = "error"
                         THEN {e \in store : e[1] # Str(tasks[t].ch)}
                         ELSE store
    /\ UNCHANGED <<dmsgs, tgmsgs, used>>
    /\ UNCHANGED parsed

\* ch.fetch_message returns or raises; the status field of the embed is
\* replaced or added and msg.edit is issued.
StatusFetched(t) ==
    /\ Quiet
    /\ tasks[t].pc = "fetch" /\ tasks[t].op = "status"
    /\ \E answer \in {"ok", "error", "noembed"} :
        IF answer = "ok"
        THEN LET msg == dmsgs[tasks[t].data[1].discord_message_id]
             IN  /\ tasks' = [tasks EXCEPT ![t].pc = "edit",
                        ![t].embed = SetStatusField(msg.embed, tasks[t].status),
                        ![t].calls = @ \cup {"d_edit"}]
        ELSE Finish(t, tasks[t], IF answer = "error" THEN "notfound" ELSE "noembed",
                    tasks[t].calls \cup {"followup"}, FALSE, FALSE)
    /\ UNCHANGED <<store, dmsgs, tgmsgs, used>>
    /\ UNCHANGED parsed

\* The record has a Telegram mirror: chat id, message id and text.
HasMirror(data) ==
    /\ TruthyStr(data.tg_chat_id)
    /\ TruthyInt(data.tg_message_id)
    /\ TruthyText(data.tg_text)

\* msg.edit returns.  With a Telegram mirror the new text is computed and
\* editMessageText is posted; without one the command is done.
StatusEdited(t) ==
    /\ Quiet
    /\ tasks[t].pc = "edit" /\ tasks[t].op = "status"
    /\ \E ok \in BOOLEAN :
        IF ~ok
        THEN /\ Finish(t, tasks[t], "failed", tasks[t].calls, FALSE, FALSE)
             /\ UNCHANGED dmsgs
        ELSE LET data == tasks[t].data[1]
             IN  /\ dmsgs' = [dmsgs EXCEPT ![data.discord_message_id].embed =
                                  tasks[t].embed]
                 /\ IF HasMirror(data)
                    THEN /\ tasks' = [tasks EXCEPT ![t].pc = "tgedit",
                                ![t].tg_text =
                                    Some(tg_apply_status(data.tg_text[1],
                                                         tasks[t].status)),
                                ![t].calls = @ \cup {"tg_edit"}]
                    ELSE Finish(t, tasks[t], "ok",
                                tasks[t].calls \cup {"followup"}, FALSE, FALSE)
    /\ UNCHANGED <<store, tgmsgs, used>>
    /\ UNCHANGED parsed

\* Mutant of StatusTgDone: the record is read again before the save.
StatusTgDone_Reload(t) ==
    /\ Quiet
    /\ tasks[t].pc = "tgedit" /\ tasks[t].op = "status"
    /\ \E answer \in {"ok", "notok", "error"} :
        IF answer = "error"
        THEN /\ Finish(t, tasks[t], "failed", tasks[t].calls, FALSE, FALSE)
             /\ UNCHANGED <<store, tgmsgs, used>>
        ELSE LET data == tasks[t].data[1]
                 cur == DictGet(load_last_ping, Str(tasks[t].ch))[1]
                 new_text == tasks[t].tg_text
                 ch == tasks[t].ch
             IN  /\ tgmsgs' = IF answer = "ok"
                              THEN [tgmsgs EXCEPT
                                      ![data.tg_chat_id[1]][data.tg_message_id[1]].text
                                          = new_text[1]]
                              ELSE tgmsgs
                 /\ store' = save_last_ping(ch, cur.discord_message_id,
                        cur.tg_chat_id, cur.tg_topic_id, cur.tg_message_id,
                        new_text)
                 /\ Finish(t, tasks[t], "ok", tasks[t].calls \cup {"save", "followup"},
                           answer = "notok", IsStale(t))
    /\ UNCHANGED <<dmsgs, used>>
    /\ UNCHANGED parsed

\* Mutant of StatusTgDone: the text is sent as a new Telegram message.
StatusTgDone_SendsNew(t) ==
    /\ Quiet
    /\ tasks[t].pc = "tgedit" /\ tasks[t].op = "status"
    /\ \E answer \in {"ok", "notok", "error"} :
        IF answer = "error"
        THEN /\ Finish(t, tasks[t], "failed", tasks[t].calls, FALSE, FALSE)
             /\ UNCHANGED <<store, tgmsgs, used>>
        ELSE LET data == tasks[t].data[1]
                 new_text == tasks[t].tg_text
                 ch == tasks[t].ch
             IN  /\ tgmsgs' = IF answer = "ok"
                              THEN [tgmsgs EXCEPT ![data.tg_chat_id[1]] =
                                      Append(@, [topic |-> data.tg_topic_id,
                                                 text |-> new_text[1]])]
                              ELSE tgmsgs
                 /\ store' = save_last_ping(ch, data.discord_message_id,
                        data.tg_chat_id, data.tg_topic_id,
                        Some(Len(tgmsgs'[data.tg_chat_id[1]])), new_text)
                 /\ Finish(t, tasks[t], "ok", tasks[t].calls \cup {"save", "followup"},
                           answer = "notok", IsStale(t))
    /\ UNCHANGED <<dmsgs, used>>
    /\ UNCHANGED parsed

\* session.post(editMessageText) returns: the answer is not looked at, the
\* new text is saved in the record and the user is told.  Only a request
\* that raises ends the command before the save.
StatusTgDone(t) ==
    /\ Quiet
    /\ tasks[t].pc = "tgedit" /\ tasks[t].op = "status"
    /\ \E answer \in {"ok", "notok", "error"} :
        IF answer = "error"
        THEN /\ Finish(t, tasks[t], "failed", tasks[t].calls, FALSE, FALSE)
             /\ UNCHANGED <<store, tgmsgs, used>>
        ELSE LET data == tasks[t].data[1]
                 new_text == tasks[t].tg_text
                 ch == tasks[t].ch
             IN  /\ tgmsgs' = IF answer = "ok"
                              THEN [tgmsgs EXCEPT
                                      ![data.tg_chat_id[1]][data.tg_message_id[1]].text
                                          = new_text[1]]
                              ELSE tgmsgs
                 /\ store' = save_last_ping(ch, data.discord_message_id,
                        data.tg_chat_id, data.tg_topic_id, data.tg_message_id,
                        new_text)
                 /\ Finish(t, tasks[t], "ok", tasks[t].calls \cup {"save", "followup"},
                           answer = "notok", IsStale(t))
    /\ UNCHANGED <<dmsgs, used>>
    /\ UNCHANGED parsed

(***************************************************************************)
(* The specification: any interleaving of the invocations at their awaits. *)
(***************************************************************************)
Next ==
    \/ \E t \in Tasks, ch \in Channels, c \in Contents :
           InvokePostPing(t, ch, c)
    \/ \E t \in Tasks : PostPingSent(t)
    \/ \E t \in Tasks : PostPingEdited(t)
    \/ \E t \in Tasks : PostPingTgDone(t)
    \/ \E t \in Tasks, ch \in Channels : InvokeReping(t, ch)
    \/ \E t \in Tasks : RepingFetched(t)
    \/ \E t \in Tasks : RepingSent(t)
    \/ \E t \in Tasks : RepingEdited(t)
    \/ \E t \in Tasks : RepingTgDone(t)
    \/ \E t \in Tasks, ch \in Channels, s \in Statuses :
           InvokePingStatus(t, ch, s)
    \/ \E t \in Tasks : StatusFetched(t)
    \/ \E t \in Tasks : StatusEdited(t)
    \/ \E t \in Tasks : StatusTgDone(t)
    \/ \E t \in Tasks : Reap(t)

Spec == Init /\ [][Next]_vars

\* The invocations run one at a time: none starts while another runs.
InitSeq ==
    /\ store = {}
    /\ dmsgs = <<>>
    /\ tgmsgs = [c \in Chats |-> <<>>]
    /\ tasks = [t \in Tasks |-> Idle]
    /\ used = [overlaps |-> MaxOverlaps, statuses |-> 0]
    /\ parsed = NoCall

SpecSeq == InitSeq /\ [][Next]_vars

(***************************************************************************)
(* The date and time resolver on its own: stratop_preping and preping call *)
(* parse_et_date_time with the date and time the user typed, at some clock *)
(* reading.                                                                *)
(***************************************************************************)
DayStrs ==
    {<<"0", "0">>, <<"0", "1">>, <<"2", "8">>, <<"2", "9">>, <<"3", "0">>,
     <<"3", "1">>, <<"3", "2">>}

MonthStrs ==
    {<<"0", "0">>, <<"0", "1">>, <<"0", "2">>, <<"0", "4">>, <<"1", "2">>,
     <<"1", "3">>}

\* "DD.MM" for the days and months above, and: " 01.01", "1.01",
\* "01.01.2025", "29.02.2025", "31.12.2023"
DateInputs ==
    {d \o <<".">> \o m : d \in DayStrs, m \in MonthStrs}
    \cup {<<" ", "0", "1", ".", "0", "1">>,
          <<"1", ".", "0", "1">>,
          <<"0", "1", ".", "0", "1", ".", "2", "0", "2", "5">>,
          <<"2", "9", ".", "0", "2", ".", "2", "0", "2", "5">>,
          <<"3", "1", ".", "1", "2", ".", "2", "0", "2", "3">>}

\* "00:00", "12:00", "23:59", "24:00", "12:60", "1:00"
TimeInputs ==
    {<<"0", "0", ":", "0", "0">>, <<"1", "2", ":", "0", "0">>,
     <<"2", "3", ":", "5", "9">>, <<"2", "4", ":", "0", "0">>,
     <<"1", "2", ":", "6", "0">>, <<"1", ":", "0", "0">>}

\* a common year followed by a leap year
Years == {2023, 2024}

\* The clock readings: second stands for the seconds and microseconds.
Nows ==
    {[year |-> y, month |-> md[1], day |-> md[2], hour |-> hm[1],
      minute |-> hm[2], second |-> sec] :
        y \in Years,
        md \in {<<1, 1>>, <<2, 28>>, <<2, 29>>, <<3, 1>>, <<12, 31>>},
        hm \in {<<0, 0>>, <<12, 0>>, <<23, 59>>},
        sec \in {0, 30}}

InitParse ==
    /\ store = {}
    /\ dmsgs = <<>>
    /\ tgmsgs = [c \in Chats |-> <<>>]
    /\ tasks = [t \in Tasks |-> Idle]
    /\ used = [overlaps |-> 0, statuses |-> 0]
    /\ \E d \in DateInputs, t \in TimeInputs, n \in Nows :
          /\ n.day <= DaysInMonth(n.year, n.month)
          /\ parsed = [date_s |-> d, time_s |-> t, now |-> n, out |-> None]

\* dt = parse_et_date_time(date_et, time_et) returns or raises ValueError.
ParseEtDateTime ==
    /\ parsed.out = None
    /\ parsed.now # None
    /\ parsed' = [parsed EXCEPT !.out =
                     Some(parse_et_date_time(parsed.date_s, parsed.time_s,
                                             parsed.now))]
    /\ UNCHANGED <<store, dmsgs, tgmsgs, tasks, used>>

NextParse == ParseEtDateTime

SpecParse == InitParse /\ [][NextParse]_vars

(***************************************************************************)
(* Vocabulary of the properties.                                           *)
(***************************************************************************)
\* The stored record of channel ch, or None.
Rec(ch) == DictGet(store, Str(ch))

Done(t) == tasks[t].pc = "done"

\* Slot t takes a step of an invocation of command op.
Steps(t, op) == tasks'[t] # tasks[t] /\ tasks'[t].op = op

\* The calls that send or change a ping message, or write the store.
Effects == {"d_send", "d_edit", "tg_send", "tg_edit", "save"}

LinkFields(embed) == {i \in 1..Len(embed) : embed[i][1] = "Link"}

LinkBlocks(text) == {i \in 1..Len(text) : IsLink(text[i])}

StatusBlocks(text) == {i \in 1..Len(text) : IsStatus(text[i])}

\* The Telegram text a handler builds for a category.
TextOf(category) == (CHOOSE c \in Contents : c.category = category).tg_text

\* What post_ping is to record for the publish of slot t.
PublishedRecord(t) ==
    LET ch == tasks[t].ch
        m == tasks[t].msg
        chat == pick_tg_chat_id(tasks[t].category)
        text == TextOf(tasks[t].category)
    IN  IF text = None
        THEN [discord_message_id |-> m, tg_chat_id |-> None,
              tg_topic_id |-> None, tg_message_id |-> None, tg_text |-> None]
        ELSE [discord_message_id |-> m, tg_chat_id |-> Some(chat),
              tg_topic_id |-> pick_tg_topic_id(tasks[t].category),
              tg_message_id |-> Some(Len(tgmsgs[chat])),
              tg_text |-> Some(text[1] \o <<NL, NL, LinkTok(JumpUrl(ch, m))>>)]

(***************************************************************************)
(* C1.  The store holds at most one record per channel, and when a publish *)
(* has succeeded the record of its channel is exactly the record of that   *)
(* publish: the Discord message it sent, the Telegram chat, topic and      *)
(* message it sent to and created, the text it sent; nothing of an earlier *)
(* publish remains.                                                        *)
(***************************************************************************)
C1_PublishReplacesRecord ==
    /\ \A e1, e2 \in store : e1[1] = e2[1] => e1 = e2
    /\ \A e \in store : \E ch \in Channels : e[1] = Str(ch)
    /\ \A t \in Tasks :
         Done(t) /\ tasks[t].op = "post" /\ tasks[t].result = "ok" =>
           /\ {e \in store : e[1] = Str(tasks[t].ch)}
                = {<<Str(tasks[t].ch), PublishedRecord(t)>>}
           /\ dmsgs[tasks[t].msg].ch = tasks[t].ch
           /\ TextOf(tasks[t].category) # None =>
                LET chat == pick_tg_chat_id(tasks[t].category)
                IN  tgmsgs[chat][Len(tgmsgs[chat])].text
                      = PublishedRecord(t).tg_text[1]

\* A second mirrored publish to a channel has succeeded after the first
\* one: the record names the second Discord and Telegram messages.
C1_SecondPublishStored ==
    \E t \in Tasks :
       /\ Done(t) /\ tasks[t].op = "post" /\ tasks[t].result = "ok"
       /\ tasks[t].msg = 2
       /\ dmsgs[1].ch = tasks[t].ch /\ dmsgs[1].by = "post"
       /\ dmsgs[1].saved /\ dmsgs[1].mirror
       /\ Rec(tasks[t].ch) = Some(PublishedRecord(t))
       /\ Rec(tasks[t].ch)[1].discord_message_id = 2
       /\ Rec(tasks[t].ch)[1].tg_message_id = Some(2)

(***************************************************************************)
(* C2.  A step of a publish changes the store only when it is the step     *)
(* that ends the publish successfully, with the Discord message sent and   *)
(* carrying its self-link and, for a mirrored ping, the Telegram message   *)
(* sent: a publish that fails at any call never touched the store.         *)
(***************************************************************************)
C2_SaveOnlyAfterAllSends ==
    [][\A t \in Tasks :
          Steps(t, "post") /\ store' # store =>
            /\ tasks'[t].pc = "done" /\ tasks'[t].result = "ok"
            /\ tasks[t].msg \in 1..Len(dmsgs')
            /\ LinkField(JumpUrl(tasks[t].ch, tasks[t].msg))
                 = dmsgs'[tasks[t].msg].embed[Len(dmsgs'[tasks[t].msg].embed)]
            /\ TextOf(tasks[t].category) # None =>
                 LET chat == pick_tg_chat_id(tasks[t].category)
                 IN  /\ Len(tgmsgs'[chat]) = Len(tgmsgs[chat]) + 1
                     /\ tgmsgs'[chat][Len(tgmsgs'[chat])].text
                          = tasks[t].tg_text[1]]_vars

\* A publish failed after its Discord message was sent, and the record of
\* the channel is still the one of the earlier ping.
C2_FailedPublishKeepsRecord ==
    \E t \in Tasks :
       /\ Done(t) /\ tasks[t].op = "post" /\ tasks[t].result = "failed"
       /\ tasks[t].msg = 2
       /\ Rec(tasks[t].ch) # None
       /\ Rec(tasks[t].ch)[1].discord_message_id = 1

(***************************************************************************)
(* C3.  When a reping or a ping_status ends with a not-found report, the   *)
(* invocation has issued no call that sends or edits a ping message or     *)
(* writes the store, and the step that ends it changes neither the store   *)
(* nor any Discord or Telegram message.                                    *)
(***************************************************************************)
C3_NotFoundHasNoEffect ==
    [][\A t \in Tasks :
          /\ tasks'[t] # tasks[t]
          /\ tasks'[t].pc = "done"
          /\ tasks'[t].op \in {"reping", "status"}
          /\ tasks'[t].result = "notfound"
          => /\ tasks'[t].calls \cap Effects = {}
             /\ tasks[t].calls \cap Effects = {}
             /\ UNCHANGED <<store, dmsgs, tgmsgs>>]_vars

\* A reping found the record but could not fetch the recorded message.
C3_RepingNotFound ==
    \E t \in Tasks :
       /\ Done(t) /\ tasks[t].op = "reping" /\ tasks[t].result = "notfound"
       /\ "d_fetch" \in tasks[t].calls
       /\ Rec(tasks[t].ch) # None

(***************************************************************************)
(* C4.  When a ping_status has saved its text and the record it read had   *)
(* been written by a ping_status too (its text ends with the status block; *)
(* a publish or a reping ends the text with the link), the text stored and *)
(* sent has exactly one status block, and that block carries the status of *)
(* this call.                                                              *)
(***************************************************************************)
C4_TwoStatusCallsLeaveOneBlock ==
    \A t \in Tasks :
       /\ Done(t) /\ tasks[t].op = "status" /\ tasks[t].result = "ok"
       /\ "save" \in tasks[t].calls
       /\ ~tasks[t].stale
       /\ IsStatus(tasks[t].data[1].tg_text[1][Len(tasks[t].data[1].tg_text[1])])
       => LET stored == Rec(tasks[t].ch)[1].tg_text[1]
              sent == tasks[t].tg_text[1]
          IN  /\ stored = sent
              /\ StatusBlocks(stored) = {Len(stored)}
              /\ stored[Len(stored)] = StatusTok(tasks[t].status)

(***************************************************************************)
(* C5.  An invocation whose Telegram call was answered with a non-ok       *)
(* response ends in failure.                                               *)
(***************************************************************************)
C5_TelegramFailureIsHard ==
    \A t \in Tasks :
       Done(t) /\ tasks[t].tgfail => tasks[t].result = "failed"

(***************************************************************************)
(* C6.  A reping or ping_status saves a record computed from the record it *)
(* read when it started, also when the store holds another record by then; *)
(* that happens only when invocations overlapped.  The witness is the lost *)
(* update: a reping has completed and saved the record of its new message, *)
(* and a ping_status that had read the record before it has put the old    *)
(* message's identifiers back.                                             *)
(***************************************************************************)
C6_StaleWriteBack ==
    \A t \in Tasks :
       Done(t) /\ tasks[t].stale =>
         LET data == tasks[t].data[1]
             rec == Rec(tasks[t].ch)[1]
         IN  /\ used.overlaps > 0
             /\ tasks[t].op \in {"reping", "status"}
             /\ tasks[t].op = "status" =>
                  /\ rec = [data EXCEPT !.tg_text = tasks[t].tg_text]
                  /\ tasks[t].tg_text
                       = Some(tg_apply_status(data.tg_text[1], tasks[t].status))
             /\ tasks[t].op = "reping" =>
                  /\ rec.discord_message_id = tasks[t].msg
                  /\ rec.tg_chat_id = data.tg_chat_id
                  /\ rec.tg_topic_id = data.tg_topic_id
                  /\ rec.tg_text = tasks[t].tg_text
                  /\ data.tg_text # None =>
                       rec.tg_text = Some(tg_replace_link(data.tg_text[1],
                                            JumpUrl(tasks[t].ch, tasks[t].msg)))

C6_LostUpdate ==
    \E t \in Tasks, m \in 1..Len(dmsgs) :
       /\ Done(t) /\ tasks[t].op = "status" /\ tasks[t].result = "ok"
       /\ tasks[t].stale
       /\ dmsgs[m].by = "reping" /\ dmsgs[m].saved
       /\ dmsgs[m].ch = tasks[t].ch
       /\ Rec(tasks[t].ch)[1].discord_message_id # m
       /\ Rec(tasks[t].ch)[1].discord_message_id
            = tasks[t].data[1].discord_message_id

(***************************************************************************)
(* C7.  With the invocations run one at a time: whenever no publish or     *)
(* reping is in progress on a channel that has a record, the record names  *)
(* the latest ping message the bot sent to the channel (the claim as       *)
(* written), resp. the latest one sent by a publish or reping that went    *)
(* through to its save (the claim as amended).                             *)
(***************************************************************************)
Latest(S) == CHOOSE m \in S : \A k \in S : k <= m

SentTo(ch) == {m \in 1..Len(dmsgs) : dmsgs[m].ch = ch}

SavedTo(ch) == {m \in SentTo(ch) : dmsgs[m].saved}

NoPingInProgress(ch) ==
    \A t \in Tasks :
       tasks[t].pc \in {"idle", "done"}
       \/ tasks[t].ch # ch
       \/ tasks[t].op \notin {"post", "reping"}

C7_RecordNamesLatestSent ==
    \A ch \in Channels :
       Rec(ch) # None /\ NoPingInProgress(ch) =>
         Rec(ch)[1].discord_message_id = Latest(SentTo(ch))

C7_RecordNamesLatestSaved ==
    \A ch \in Channels :
       Rec(ch) # None /\ NoPingInProgress(ch) =>
         /\ SavedTo(ch) # {}
         /\ Rec(ch)[1].discord_message_id = Latest(SavedTo(ch))

\* A publish or reping failed after its Discord send: the channel holds a
\* newer ping message than the one the record names.
C7_FailedPingLeavesNewerMessage ==
    \E ch \in Channels :
       /\ Rec(ch) # None /\ NoPingInProgress(ch)
       /\ Rec(ch)[1].discord_message_id = Latest(SavedTo(ch))
       /\ Latest(SentTo(ch)) > Rec(ch)[1].discord_message_id

(***************************************************************************)
(* C8.  In every stored record the Telegram message id is present iff the  *)
(* Telegram text is, and both are iff the ping of the recorded message was *)
(* published with a Telegram mirror.                                       *)
(***************************************************************************)
C8_TelegramFieldsTogether ==
    \A e \in store :
       /\ (e[2].tg_message_id # None) <=> (e[2].tg_text # None)
       /\ (e[2].tg_text # None) <=> dmsgs[e[2].discord_message_id].mirror

\* The record of a mirrored ping with a status, beside the record of a ping
\* without mirror.
C8_BothKindsStored ==
    \E e1, e2 \in store :
       /\ e1[2].tg_message_id # None
       /\ StatusBlocks(e1[2].tg_text[1]) # {}
       /\ e2[2].tg_message_id = None /\ e2[2].tg_text = None

(***************************************************************************)
(* C9.  A step of ping_status adds no Discord and no Telegram message.     *)
(* When it changes the store, it replaces the record of its channel by one *)
(* with the four identifiers unchanged and a new text: unchanged from the  *)
(* record in the store (the claim as written), resp. from the record the   *)
(* invocation read when it started (the claim as amended).  When the       *)
(* record it read has no Telegram mirror, it makes no Telegram call and    *)
(* leaves the store and the Telegram messages as they are.                 *)
(***************************************************************************)
StatusCreatesNothing(t) ==
    /\ Len(dmsgs') = Len(dmsgs)
    /\ \A c \in Chats : Len(tgmsgs'[c]) = Len(tgmsgs[c])
    /\ tasks'[t].calls \cap {"d_send", "tg_send"} = {}
    /\ tasks'[t].data # None /\ ~HasMirror(tasks'[t].data[1]) =>
         /\ tasks'[t].calls \cap {"tg_edit", "save"} = {}
         /\ store' = store
         /\ tgmsgs' = tgmsgs

\* The store changes to: the record of the channel is base with a new text.
StatusSaves(t, base) ==
    /\ base # None
    /\ store' = DictSet(store, Str(tasks[t].ch),
                        [base[1] EXCEPT !.tg_text = tasks'[t].tg_text])
    /\ tasks'[t].tg_text # None

C9_StatusKeepsStoredIds ==
    [][\A t \in Tasks :
          Steps(t, "status") =>
            /\ StatusCreatesNothing(t)
            /\ store' # store => StatusSaves(t, Rec(tasks[t].ch))]_vars

C9_StatusKeepsReadIds ==
    [][\A t \in Tasks :
          Steps(t, "status") =>
            /\ StatusCreatesNothing(t)
            /\ store' # store => StatusSaves(t, tasks[t].data)]_vars

\* A ping_status has saved its text after a reping of the channel had sent
\* a new Telegram message: the record names the older message again.
C9_StatusWroteBackReadIds ==
    \E t \in Tasks :
       /\ Done(t) /\ tasks[t].op = "status" /\ "save" \in tasks[t].calls
       /\ LET rec == Rec(tasks[t].ch)[1]
          IN  /\ rec = [tasks[t].data[1] EXCEPT !.tg_text = tasks[t].tg_text]
              /\ rec.tg_message_id[1] < Len(tgmsgs[rec.tg_chat_id[1]])
              /\ tgmsgs[rec.tg_chat_id[1]][rec.tg_message_id[1]].text
                   = rec.tg_text[1]

(***************************************************************************)
(* C10.  When a reping has succeeded, the embed of the message it sent has *)
(* exactly one link field, to that message; the record of the channel      *)
(* names that message; and when the record it read had a Telegram chat and *)
(* text, the record keeps chat and topic and names a new Telegram message  *)
(* in that chat and topic whose text, the stored one, has exactly one link *)
(* block, the last token, to the new Discord message.                      *)
(***************************************************************************)
C10_RepingLeavesOneFreshLink ==
    \A t \in Tasks :
       Done(t) /\ tasks[t].op = "reping" /\ tasks[t].result = "ok" =>
         LET ch == tasks[t].ch
             m == tasks[t].msg
             data == tasks[t].data[1]
             rec == Rec(ch)[1]
             embed == dmsgs[m].embed
         IN  /\ dmsgs[m].ch = ch /\ m # data.discord_message_id
             /\ \E i \in 1..Len(embed) :
                   /\ LinkFields(embed) = {i}
                   /\ embed[i] = LinkField(JumpUrl(ch, m))
             /\ rec.discord_message_id = m
             /\ IF TruthyStr(data.tg_chat_id) /\ TruthyText(data.tg_text)
                THEN LET chat == data.tg_chat_id[1]
                         k == Len(tgmsgs[chat])
                         text == rec.tg_text[1]
                     IN  /\ rec.tg_chat_id = data.tg_chat_id
                         /\ rec.tg_topic_id = data.tg_topic_id
                         /\ rec.tg_message_id = Some(k)
                         /\ k # data.tg_message_id[1]
                         /\ tgmsgs[chat][k] = [topic |-> data.tg_topic_id,
                                               text |-> text]
                         /\ LinkBlocks(text) = {Len(text)}
                         /\ text[Len(text)] = LinkTok(JumpUrl(ch, m))
                ELSE rec.tg_message_id = None /\ rec.tg_text = None

\* A reping of a mirrored ping that had a status has succeeded.
C10_RepingAfterStatus ==
    \E t \in Tasks :
       /\ Done(t) /\ tasks[t].op = "reping" /\ tasks[t].result = "ok"
       /\ tasks[t].data[1].tg_text # None
       /\ StatusBlocks(tasks[t].data[1].tg_text[1]) # {}
       /\ LinkBlocks(tasks[t].data[1].tg_text[1]) # {}
       /\ LinkFields(dmsgs[tasks[t].data[1].discord_message_id].embed) # {}

(***************************************************************************)
(* C11.  parse_et_date_time, called with a valid HH:MM time and a          *)
(* year-less DD.MM date: when day and month are a date of the current UTC  *)
(* year and that instant is not before now, it is returned; when it is     *)
(* strictly before now and day and month are a date of the following year, *)
(* that instant of the following year is returned; in the other cases the  *)
(* call raises.  A returned datetime always has the day, month, hour and   *)
(* minute that were typed.                                                 *)
(***************************************************************************)
C11_YearlessDateRollsOver ==
    LET tm == Match2Sep2(Strip(parsed.time_s), ":")
        dm == Match2Sep2(Strip(parsed.date_s), ".")
    IN  /\ parsed.out # None
        /\ tm # None /\ tm[1][1] <= 23 /\ tm[1][2] <= 59
        /\ dm # None
        => LET out == parsed.out[1]
               now == parsed.now
               IsDate(y) == /\ dm[1][2] \in 1..12
                            /\ dm[1][1] \in 1..DaysInMonth(y, dm[1][2])
               InYear(y) == [year |-> y, month |-> dm[1][2],
                             day |-> dm[1][1], hour |-> tm[1][1],
                             minute |-> tm[1][2], second |-> 0]
               Fails == out.dt = None /\ out.raised # ""
           IN  /\ IF ~IsDate(now.year) THEN Fails
                  ELSE IF ~Before(InYear(now.year), now)
                  THEN out = Return(InYear(now.year))
                  ELSE IF IsDate(now.year + 1)
                  THEN out = Return(InYear(now.year + 1))
                  ELSE Fails
               /\ out.dt # None =>
                    /\ out.dt[1].day = dm[1][1]
                    /\ out.dt[1].month = dm[1][2]
                    /\ out.raised = ""

\* A date that has passed this year came back in the following year.
C11_PastDateNextYear ==
    /\ parsed.out # None
    /\ Match2Sep2(Strip(parsed.date_s), ".") # None
    /\ parsed.out[1].dt # None
    /\ parsed.out[1].dt[1].year = parsed.now.year + 1
    /\ parsed.out[1].dt[1].month < parsed.now.month

(***************************************************************************)
(* C12.  With the invocations run one at a time, every stored Telegram     *)
(* text has at most one status block; and when a ping_status has saved its *)
(* text, the one status block of the stored text carries the status of     *)
(* that call.                                                              *)
(***************************************************************************)
C12_StatusNeverAccumulates ==
    /\ \A e \in store :
          e[2].tg_text # None =>
             Cardinality(StatusBlocks(e[2].tg_text[1])) <= 1
    /\ \A t \in Tasks :
          /\ Done(t) /\ tasks[t].op = "status"
          /\ "save" \in tasks[t].calls
          => LET text == Rec(tasks[t].ch)[1].tg_text[1]
             IN  \A i \in StatusBlocks(text) :
                    text[i] = StatusTok(tasks[t].status)

(***************************************************************************)
(* C13.  A step of a command invoked in a channel leaves the stored record *)
(* of every other channel as it is: neither changed nor removed, in every  *)
(* interleaving of the invocations.                                        *)
(***************************************************************************)
\* The channel of the invocation that slot t steps with.
StepChannel(t) == IF tasks[t].pc = "idle" THEN tasks'[t].ch ELSE tasks[t].ch

====
